---------------------------- MODULE Spec2Model ----------------------------
(***************************************************************************)
(* Greybus operations (src/unnamed/part_000, lines 1-583): the operation   *)
(* multiplexer of one connection.  The state is the connection's two       *)
(* lists, its id counter, the gb_operation structures, the delayed work    *)
(* of each operation's timeout, the single-worker receive workqueue, the   *)
(* position of each submitting thread inside gb_operation_request_send,    *)
(* and the host device's view of the buffers it allocated and sent.        *)
(* Mali power management (the same file, lines 585-1014): the count of     *)
(* active contexts under kbdev->pm.lock and the driver's suspend/resume.   *)
(***************************************************************************)
EXTENDS Integers, Sequences, FiniteSets, TLC

(* ------------------------------ bounds -------------------------------- *)
\* Number of gb_operation objects the cache can hand out in one run.  An
\* object is handed out at most once: a freed object's memory is not reused.
NumOps == 2
\* Number of objects the cache hands out in the runs of Spec
NumSolo == 1

Ops == 1..NumOps

(* ------------------------- program constants -------------------------- *)
GB_OPERATION_TYPE_RESPONSE == 128
GB_OPERATION_MESSAGE_SIZE_MAX == 4096
\* sizeof(struct gb_operation_msg_hdr): 2 + 2 + 1 + 1 bytes, aligned to u64
HDR_SIZE == 8
\* u16 operation ids: connection->op_cycle and operation->id
U16 == 65536

\* enum gb_operation_result values used by this file
GB_OP_SUCCESS == 0
GB_OP_PROTOCOL_BAD == 5
GB_OP_OVERFLOW == 6
GB_OP_TIMEOUT == 255

\* return statuses
ENOTCONN == 107
ERESTARTSYS == 512
EIO == 5

(* --------------------- inputs drawn from small sets ------------------- *)
\* payload sizes a submitter asks for (the last one exceeds the maximum)
RequestSizes == {2, 4097}
ResponseSizes == {4, 4097}
\* received byte count and header size field of the well-formed incoming
\* frames: one that fits the response buffer of ResponseSizes' payload and
\* one that does not
FrameShapes == {<<12, 12>>, <<16, 16>>}
FrameIds == {0, 1, 2}
FrameTypes == {1, 129}
ResultBytes == {0, 1}
\* the first payload byte of every incoming frame
PayloadMark == 7
\* what a buffer from buffer_alloc holds before anyone writes it: a host
\* driver either zeroes its buffers or leaves stale bytes in them
FillBytes == {0, 1}
\* the values of connection->op_cycle the runs start from: a new connection,
\* and a connection whose counter has reached the top of its range
InitCycles == {0, 65535}

WellFormedFrames ==
    {[n |-> shape[1], size |-> shape[2], operation_id |-> id, type |-> type,
      result |-> result] :
        shape \in FrameShapes, id \in FrameIds, type \in FrameTypes,
        result \in ResultBytes}

\* fewer bytes than a header, and a header whose size exceeds what was received
MalformedFrames ==
    {[n |-> 4, size |-> 12, operation_id |-> 1, type |-> 129, result |-> 0],
     [n |-> 12, size |-> 16, operation_id |-> 1, type |-> 129, result |-> 0]}

Frames == WellFormedFrames \cup MalformedFrames

VARIABLES
    conn_state,        \* connection->state
    op_cycle,          \* connection->op_cycle (u16)
    operations,        \* connection->operations, a list of gb_operation
    pending,           \* connection->pending, a list of gb_operation
    protocol_handler,  \* connection->protocol->request_recv is non-NULL
    cache_objects,     \* how many gb_operation objects the cache hands out in this run
    alloc,             \* per object: "free", "live", or "destroyed" (returned to the cache)
    ops,               \* the memory of each gb_operation object
    timeout_work,      \* per object: "idle", "armed" (queued in the timer), "running"
    recv_workqueue,    \* gb_operation_recv_workqueue: queued recv_work items, oldest first
    pc,                \* per object: where its submitter is in gb_operation_request_send
    ret,               \* per object: the value gb_operation_request_send returned
    hd_fill,           \* the byte the host driver's fresh buffers hold
    hd_buffers,        \* per object and message: "none", "allocated", "freed"
    hd_bad_free,       \* buffer_free was called on a buffer that is not allocated
    hd_inflight,       \* objects whose request buffer the transport is sending
    hd_cancel_calls,   \* per object: calls of buffer_cancel on its request cookie
    hd_stale_cancel,   \* buffer_cancel was handed a cookie of a send that is over
    complete_log,      \* per object: one entry per call of gb_operation_complete
    handler_calls,     \* per object: calls of protocol->request_recv
    conn_err,          \* the last message logged through gb_connection_err ("none" before any)
    fault              \* "none", or the undefined behaviour the run has hit

\* Mali power management (src/unnamed/part_000, lines 585-1014): the
\* reference count of the contexts that need the GPU, and the driver's
\* suspend and resume
VARIABLES
    active_count,      \* kbdev->pm.active_count
    suspending,        \* kbdev->pm.suspending
    pm_lock,           \* the thread that holds kbdev->pm.lock (NoThread when free)
    pm_pc,             \* per thread: where it is in kbase_pm_context_active/idle
    suspend_handler,   \* per thread: the suspend_handler argument of its call
    pm_c,              \* per thread: the local variable c
    pm_refs,           \* per thread: successful context_active calls not yet idled
    pm_ret,            \* per thread: what its last kbase_pm_context_active_handle_suspend returned
    gpu_active,        \* kbase_hwaccess_pm_gpu_active was called last, not ..._gpu_idle
    hook_misuse,       \* gpu_active was called on an active GPU or gpu_idle on an idle one
    suspend_pc,        \* where the suspend/resume thread is
    hw_suspend_seen    \* active_count when kbase_hwaccess_pm_suspend was last called

pm_vars ==
    <<active_count, suspending, pm_lock, pm_pc, suspend_handler, pm_c, pm_refs, pm_ret,
      gpu_active, hook_misuse, suspend_pc, hw_suspend_seen>>

\* the variables of the Greybus connection
gb_vars ==
    <<conn_state, op_cycle, operations, pending, protocol_handler, cache_objects, alloc, ops,
      timeout_work, recv_workqueue, pc, ret, hd_fill, hd_buffers, hd_bad_free,
      hd_inflight, hd_cancel_calls, hd_stale_cancel, complete_log, handler_calls,
      conn_err, fault>>

vars == <<gb_vars, pm_vars>>

(* ------------------------------ helpers ------------------------------- *)
\* no thread has run into undefined behaviour: what the program does after a
\* null dereference or a use of freed memory is not followed
Running == fault = "none"

SeqToSet(s) == {s[i] : i \in 1..Len(s)}

SeqRemove(s, x) == SelectSeq(s, LAMBDA y : y # x)

\* list_move_tail / list_add_tail onto a list the entry is not on
ListAddTail(s, x) == Append(SeqRemove(s, x), x)

IsResponseType(type) == (type \div GB_OPERATION_TYPE_RESPONSE) % 2 = 1

NullHeader == [size |-> 0, operation_id |-> 0, type |-> 0, result |-> 0]

\* a zeroed struct gb_message
NullMessage ==
    [buffer |-> FALSE, buffer_size |-> 0, cookie |-> FALSE, operation |-> FALSE,
     header |-> NullHeader, payload0 |-> 0]

\* a zeroed struct gb_operation (kmem_cache_zalloc)
NullOperation ==
    [id |-> 0, request |-> NullMessage, response |-> NullMessage,
     callback |-> FALSE, result |-> 0, canceled |-> FALSE,
     completion |-> FALSE, kref |-> 0]


\* how the allocations inside gb_operation_create_common turn out
CreateOutcomes == {"ok", "nomem_operation", "nomem_request", "nomem_response"}

\* the lowest object the cache has not handed out yet (0 when there is none)
FreeOp ==
    LET free == {o \in 1..cache_objects : alloc[o] = "free"} IN
    IF free = {} THEN 0 ELSE CHOOSE o \in free : \A q \in free : o <= q

(* ----------------------------- messages ------------------------------- *)
\* gb_operation_message_init: the status it returns for a payload size
MessageInitStatus(size, buffer_ok) ==
    IF size > GB_OPERATION_MESSAGE_SIZE_MAX THEN "E2BIG"
    ELSE IF ~buffer_ok THEN "ENOMEM"
    ELSE "ok"

\* gb_operation_message_init: the message it fills in on success
MessageInit(type, size, request) ==
    [buffer |-> TRUE,
     buffer_size |-> size + HDR_SIZE,
     cookie |-> FALSE,
     operation |-> TRUE,
     header |-> [size |-> (size + HDR_SIZE) % U16,
                 operation_id |-> 0,
                 type |-> IF request \/ IsResponseType(type) THEN type
                          ELSE type + GB_OPERATION_TYPE_RESPONSE,
                 result |-> hd_fill],
     payload0 |-> hd_fill]

\* gb_operation_message_exit: the message after its buffer went back to the host device
MessageExit(message) ==
    [message EXCEPT !.operation = FALSE, !.buffer = FALSE, !.buffer_size = 0,
                    !.header = NullHeader, !.payload0 = 0]

\* the host device's record of a buffer after buffer_free on it
BufferFreed(state) == IF state = "allocated" THEN "freed" ELSE state

(* ------------------------- power management --------------------------- *)
\* threads that take and drop references on the GPU
NumUsers == 2
\* references one thread holds at most at a time
MaxRefs == 2

PmUsers == 1..NumUsers
\* the thread that runs kbase_pm_driver_suspend and kbase_pm_driver_resume
SuspendThread == NumUsers + 1
PmThreads == 1..(NumUsers + 1)
\* nobody holds kbdev->pm.lock
NoThread == 0

\* the suspend handlers of the callers that may run while the driver
\* suspends; KBASE_PM_SUSPEND_HANDLER_NOT_POSSIBLE is for callers that
\* exclude a suspend, here kbase_pm_driver_resume after
\* kbase_hwaccess_pm_resume
UserHandlers == {"DONT_INCREASE", "DONT_REACTIVATE"}

\* the state before anybody uses the GPU
PmInit ==
    /\ active_count = 0
    /\ suspending = FALSE
    /\ pm_lock = NoThread
    /\ pm_pc = [t \in PmThreads |-> "out"]
    /\ suspend_handler = [t \in PmThreads |-> "NOT_POSSIBLE"]
    /\ pm_c = [t \in PmThreads |-> 0]
    /\ pm_refs = [t \in PmThreads |-> 0]
    /\ pm_ret = [t \in PmThreads |-> 0]
    /\ gpu_active = FALSE
    /\ hook_misuse = FALSE
    /\ suspend_pc = "running"
    /\ hw_suspend_seen = 0

\* kbase_pm_context_active_handle_suspend up to kbase_pm_lock: a user thread
\* with one of its handlers, or kbase_pm_driver_resume through
\* kbase_pm_context_active
ActiveLock(t, handler) ==
    /\ pm_pc[t] = "out"
    /\ pm_lock = NoThread
    /\ \/ t \in PmUsers /\ handler \in UserHandlers /\ pm_refs[t] < MaxRefs
       \/ t = SuspendThread /\ handler = "NOT_POSSIBLE" /\ suspend_pc = "resume_active"
    /\ pm_lock' = t
    /\ pm_pc' = [pm_pc EXCEPT ![t] = "active_locked"]
    /\ suspend_handler' = [suspend_handler EXCEPT ![t] = handler]
    /\ UNCHANGED <<active_count, suspending, pm_c, pm_refs, pm_ret, gpu_active,
                   hook_misuse, suspend_pc, hw_suspend_seen, gb_vars>>

\* a DONT_REACTIVATE that goes on to take the reference whatever the count
ReactivateNeverRefused(count) == FALSE

\* case KBASE_PM_SUSPEND_HANDLER_DONT_REACTIVATE: falls through to the
\* return unless active_count != 0
ReactivateRefused(count) == count = 0

\* the switch on suspend_handler while the driver is suspending: the call
\* returns 1
ActiveRefused(handler, count) ==
    /\ suspending
    /\ \/ handler = "DONT_INCREASE"
       \/ handler = "DONT_REACTIVATE" /\ ReactivateRefused(count)

\* the test of kbase_pm_is_suspending, then either the return of 1 or
\* c = ++kbdev->pm.active_count
ActiveCheck(t) ==
    /\ pm_pc[t] = "active_locked"
    /\ IF ActiveRefused(suspend_handler[t], active_count)
       THEN /\ pm_lock' = NoThread
            /\ pm_ret' = [pm_ret EXCEPT ![t] = 1]
            /\ pm_pc' = [pm_pc EXCEPT ![t] = "out"]
            /\ UNCHANGED <<active_count, pm_c>>
       ELSE /\ active_count' = active_count + 1
            /\ pm_c' = [pm_c EXCEPT ![t] = active_count + 1]
            /\ pm_pc' = [pm_pc EXCEPT ![t] = "active_counted"]
            /\ UNCHANGED <<pm_lock, pm_ret>>
    /\ UNCHANGED <<suspending, suspend_handler, pm_refs, gpu_active, hook_misuse,
                   suspend_pc, hw_suspend_seen, gb_vars>>

\* a kbase_pm_context_active that powers the GPU on at every call
EveryActive(count) == count >= 1

\* if (c == 1): the first context became active
FirstActive(count) == count = 1

\* kbase_hwaccess_pm_gpu_active for the first reference, kbase_pm_unlock,
\* return 0
ActiveUnlock(t) ==
    /\ pm_pc[t] = "active_counted"
    /\ IF FirstActive(pm_c[t])
       THEN /\ gpu_active' = TRUE
            /\ hook_misuse' = (hook_misuse \/ gpu_active)
       ELSE UNCHANGED <<gpu_active, hook_misuse>>
    /\ pm_lock' = NoThread
    /\ pm_ret' = [pm_ret EXCEPT ![t] = 0]
    /\ pm_refs' = [pm_refs EXCEPT ![t] = @ + 1]
    /\ pm_pc' = [pm_pc EXCEPT ![t] = "out"]
    /\ suspend_pc' = IF t = SuspendThread THEN "resume_idle" ELSE suspend_pc
    /\ UNCHANGED <<active_count, suspending, suspend_handler, pm_c, hw_suspend_seen,
                   gb_vars>>

\* kbase_pm_context_idle up to kbase_pm_lock, by a thread that holds a
\* reference
IdleLock(t) ==
    /\ pm_pc[t] = "out"
    /\ pm_lock = NoThread
    /\ pm_refs[t] > 0
    /\ t = SuspendThread => suspend_pc = "resume_idle"
    /\ pm_lock' = t
    /\ pm_pc' = [pm_pc EXCEPT ![t] = "idle_locked"]
    /\ UNCHANGED <<active_count, suspending, suspend_handler, pm_c, pm_refs, pm_ret,
                   gpu_active, hook_misuse, suspend_pc, hw_suspend_seen, gb_vars>>

\* c = --kbdev->pm.active_count
IdleCount(t) ==
    /\ pm_pc[t] = "idle_locked"
    /\ active_count' = active_count - 1
    /\ pm_c' = [pm_c EXCEPT ![t] = active_count - 1]
    /\ pm_pc' = [pm_pc EXCEPT ![t] = "idle_counted"]
    /\ UNCHANGED <<suspending, pm_lock, suspend_handler, pm_refs, pm_ret, gpu_active,
                   hook_misuse, suspend_pc, hw_suspend_seen, gb_vars>>

\* if (c == 0): the last context has gone idle
LastIdle(count) == count = 0

\* kbase_hwaccess_pm_gpu_idle and the wake_up for the last reference, then
\* kbase_pm_unlock
IdleUnlock(t) ==
    /\ pm_pc[t] = "idle_counted"
    /\ IF LastIdle(pm_c[t])
       THEN /\ gpu_active' = FALSE
            /\ hook_misuse' = (hook_misuse \/ ~gpu_active)
       ELSE UNCHANGED <<gpu_active, hook_misuse>>
    /\ pm_lock' = NoThread
    /\ pm_refs' = [pm_refs EXCEPT ![t] = @ - 1]
    /\ pm_pc' = [pm_pc EXCEPT ![t] = "out"]
    /\ suspend_pc' = IF t = SuspendThread THEN "running" ELSE suspend_pc
    /\ UNCHANGED <<active_count, suspending, suspend_handler, pm_c, pm_ret,
                   hw_suspend_seen, gb_vars>>

\* kbase_pm_driver_suspend: mutex_lock(&kbdev->pm.lock)
SuspendLock ==
    /\ suspend_pc = "running"
    /\ pm_lock = NoThread
    /\ pm_lock' = SuspendThread
    /\ suspend_pc' = "suspend_locked"
    /\ UNCHANGED <<active_count, suspending, pm_pc, suspend_handler, pm_c, pm_refs,
                   pm_ret, gpu_active, hook_misuse, hw_suspend_seen, gb_vars>>

\* kbase_pm_driver_suspend: the WARN_ON and return when a suspend is under
\* way already, else kbdev->pm.suspending = true; mutex_unlock
SuspendMark ==
    /\ suspend_pc = "suspend_locked"
    /\ pm_lock' = NoThread
    /\ IF suspending
       THEN suspend_pc' = "running" /\ UNCHANGED suspending
       ELSE suspend_pc' = "suspend_wait" /\ suspending' = TRUE
    /\ UNCHANGED <<active_count, pm_pc, suspend_handler, pm_c, pm_refs, pm_ret,
                   gpu_active, hook_misuse, hw_suspend_seen, gb_vars>>

\* kbase_pm_driver_suspend: wait_event(zero_active_count_wait,
\* active_count == 0) returns; the count is read without kbdev->pm.lock
SuspendWaitDone ==
    /\ suspend_pc = "suspend_wait"
    /\ active_count = 0
    /\ suspend_pc' = "hw_suspend"
    /\ UNCHANGED <<active_count, suspending, pm_lock, pm_pc, suspend_handler, pm_c,
                   pm_refs, pm_ret, gpu_active, hook_misuse, hw_suspend_seen, gb_vars>>

\* kbase_pm_driver_suspend: the call of kbase_hwaccess_pm_suspend, which
\* gets kbdev->pm.lock ("we synchronize with anything that was just
\* finishing a kbase_pm_context_idle() call") and returns
HwaccessSuspend ==
    /\ suspend_pc = "hw_suspend"
    /\ pm_lock = NoThread
    /\ hw_suspend_seen' = active_count
    /\ suspend_pc' = "suspended"
    /\ UNCHANGED <<active_count, suspending, pm_lock, pm_pc, suspend_handler, pm_c,
                   pm_refs, pm_ret, gpu_active, hook_misuse, gb_vars>>

\* kbase_pm_driver_resume: kbase_hwaccess_pm_resume, which "MUST happen
\* before any pm_context_active calls occur": the driver is not suspending
\* any more
HwaccessResume ==
    /\ suspend_pc = "suspended"
    /\ pm_lock = NoThread
    /\ suspending' = FALSE
    /\ suspend_pc' = "resume_active"
    /\ UNCHANGED <<active_count, pm_lock, pm_pc, suspend_handler, pm_c, pm_refs,
                   pm_ret, gpu_active, hook_misuse, hw_suspend_seen, gb_vars>>

kbase_pm_context_active_handle_suspend ==
    \/ \E t \in PmThreads, handler \in UserHandlers \cup {"NOT_POSSIBLE"} :
          ActiveLock(t, handler)
    \/ \E t \in PmThreads : ActiveCheck(t)
    \/ \E t \in PmThreads : ActiveUnlock(t)

kbase_pm_context_idle ==
    \/ \E t \in PmThreads : IdleLock(t)
    \/ \E t \in PmThreads : IdleCount(t)
    \/ \E t \in PmThreads : IdleUnlock(t)

kbase_pm_driver_suspend == SuspendLock \/ SuspendMark \/ SuspendWaitDone \/ HwaccessSuspend

NextPm ==
    \/ kbase_pm_context_active_handle_suspend
    \/ kbase_pm_context_idle
    \/ kbase_pm_driver_suspend
    \/ HwaccessResume

(* ------------------------------- Init --------------------------------- *)
\* a connection on which no operation exists
InitClean ==
    /\ operations = <<>>
    /\ pending = <<>>
    /\ alloc = [o \in Ops |-> "free"]
    /\ ops = [o \in Ops |-> NullOperation]
    /\ timeout_work = [o \in Ops |-> "idle"]
    /\ pc = [o \in Ops |-> "none"]
    /\ hd_buffers = [o \in Ops |-> [request |-> "none", response |-> "none"]]
    /\ hd_inflight = {}

\* a connection whose counter has gone once round its 16 bits while the
\* operation submitted with id 1 (asynchronously, with a callback) is still
\* awaiting its response: op_cycle is back at 0
InitWrapped ==
    /\ op_cycle = 0
    /\ operations = <<>>
    /\ pending = <<1>>
    /\ alloc = [o \in Ops |-> IF o = 1 THEN "live" ELSE "free"]
    /\ ops = [o \in Ops |->
                IF o = 1
                THEN [NullOperation EXCEPT
                        !.id = 1,
                        !.request = [MessageInit(1, 2, TRUE) EXCEPT
                                        !.cookie = TRUE, !.header.operation_id = 1],
                        !.response = MessageInit(1, 4, FALSE),
                        !.callback = TRUE,
                        !.kref = 1]
                ELSE NullOperation]
    /\ timeout_work = [o \in Ops |-> IF o = 1 THEN "armed" ELSE "idle"]
    /\ pc = [o \in Ops |-> IF o = 1 THEN "returned" ELSE "none"]
    /\ hd_buffers = [o \in Ops |->
                        IF o = 1 THEN [request |-> "allocated", response |-> "allocated"]
                        ELSE [request |-> "none", response |-> "none"]]
    /\ hd_inflight = {1}

\* what every run starts with
InitCommon ==
    /\ conn_state = "ENABLED"
    /\ recv_workqueue = <<>>
    /\ ret = [o \in Ops |-> 0]
    /\ hd_bad_free = FALSE
    /\ hd_cancel_calls = [o \in Ops |-> 0]
    /\ hd_stale_cancel = FALSE
    /\ complete_log = [o \in Ops |-> <<>>]
    /\ handler_calls = [o \in Ops |-> 0]
    /\ conn_err = "none"
    /\ fault = "none"
    /\ PmInit

\* one operation at a time on a new connection, with any protocol and any
\* host driver
Init ==
    /\ InitCommon
    /\ cache_objects = NumSolo
    /\ protocol_handler \in BOOLEAN
    /\ hd_fill \in FillBytes
    /\ op_cycle = 0
    /\ InitClean

(* ------------------------ create and destroy -------------------------- *)
\* a gb_operation_create_common without kref_init
CreatedWithoutRef(outgoing, type, request_size, response_size) ==
    [NullOperation EXCEPT
        !.request = MessageInit(type, request_size, TRUE),
        !.response = IF outgoing THEN MessageInit(type, response_size, FALSE)
                     ELSE NullMessage]

\* gb_operation_create_common: the object after a successful create
CreatedOperation(outgoing, type, request_size, response_size) ==
    [NullOperation EXCEPT
        !.request = MessageInit(type, request_size, TRUE),
        !.response = IF outgoing THEN MessageInit(type, response_size, FALSE)
                     ELSE NullMessage,
        !.kref = 1]

\* gb_operation_create_common: "ok", or the point at which it gives up
CreateStatus(outgoing, request_size, response_size, outcome) ==
    IF outcome = "nomem_operation" THEN "fail_operation"
    ELSE IF MessageInitStatus(request_size, outcome # "nomem_request") # "ok"
         THEN "fail_request"
    ELSE IF outgoing /\ MessageInitStatus(response_size, outcome # "nomem_response") # "ok"
         THEN "fail_response"
    ELSE "ok"

\* gb_operation_create_common on object o: the lists, the object and the
\* host device's buffers afterwards
CreateCommon(o, outgoing, type, request_size, response_size, outcome) ==
    LET status == CreateStatus(outgoing, request_size, response_size, outcome) IN
    /\ alloc' = IF status = "ok" THEN [alloc EXCEPT ![o] = "live"] ELSE alloc
    /\ ops' = IF status = "ok"
              THEN [ops EXCEPT ![o] = CreatedOperation(outgoing, type, request_size, response_size)]
              ELSE ops
    /\ operations' = IF status = "ok" THEN ListAddTail(operations, o) ELSE operations
    /\ hd_buffers' =
         CASE status = "ok" ->
                [hd_buffers EXCEPT ![o] = [request |-> "allocated",
                                           response |-> IF outgoing THEN "allocated" ELSE "none"]]
           [] status = "fail_response" ->
                \* err_request: the request buffer was allocated and is freed again
                [hd_buffers EXCEPT ![o] = [request |-> "freed", response |-> "none"]]
           [] OTHER -> hd_buffers

\* gb_operation_create, called by a submitter
gb_operation_create(o, request_size, response_size, outcome) ==
    /\ Running
    /\ o = FreeOp
    /\ o \in Ops
    /\ CreateCommon(o, TRUE, 1, request_size, response_size, outcome)
    /\ pc' = IF alloc'[o] = "live" THEN [pc EXCEPT ![o] = "idle"] ELSE pc
    /\ UNCHANGED <<conn_state, op_cycle, pending, protocol_handler, cache_objects,
                   timeout_work,
                   recv_workqueue, ret, hd_fill, pm_vars, hd_bad_free, hd_inflight,
                   hd_cancel_calls, hd_stale_cancel, complete_log, handler_calls,
                   fault, conn_err>>

DestroyOutcomes == {"proceeds", "oops"}

\* _gb_operation_destroy on object o.  gb_operation_message_exit reads
\* message->operation->connection->hd; for a response message that was never
\* initialised message->operation is NULL.  The read of a null pointer either
\* stops the thread there (oops) or goes on to buffer_free(NULL).
Destroy(o, outcome) ==
    LET null_response == ~ops[o].response.operation
        oops == null_response /\ outcome = "oops" IN
    /\ operations' = SeqRemove(operations, o)
    /\ pending' = SeqRemove(pending, o)
    /\ fault' = IF null_response THEN "null_deref" ELSE fault
    /\ IF oops
       THEN /\ ops' = [ops EXCEPT ![o].kref = 0]
            /\ UNCHANGED <<alloc, hd_buffers, hd_bad_free>>
       ELSE /\ ops' = [ops EXCEPT ![o].kref = 0,
                                  ![o].response = MessageExit(ops[o].response),
                                  ![o].request = MessageExit(ops[o].request)]
            /\ hd_buffers' = [hd_buffers EXCEPT
                                ![o].response = BufferFreed(hd_buffers[o].response),
                                ![o].request = BufferFreed(hd_buffers[o].request)]
            /\ hd_bad_free' = (hd_bad_free
                                \/ hd_buffers[o].response # "allocated"
                                \/ hd_buffers[o].request # "allocated")
            /\ alloc' = [alloc EXCEPT ![o] = "destroyed"]

\* gb_operation_put, called by the holder of the creator's reference when it
\* is not inside gb_operation_request_send
gb_operation_put(o, outcome) ==
    /\ Running
    /\ alloc[o] = "live"
    /\ pc[o] \in {"idle", "returned"}
    /\ ops[o].kref = 1
    /\ (outcome = "oops" => ~ops[o].response.operation)
    /\ Destroy(o, outcome)
    /\ UNCHANGED <<conn_state, op_cycle, protocol_handler, cache_objects, timeout_work,
                   recv_workqueue, pc, ret, hd_fill, pm_vars, hd_inflight,
                   hd_cancel_calls, hd_stale_cancel, complete_log, handler_calls, conn_err>>

(* --------------------------- pending table ---------------------------- *)
\* gb_pending_operation_insert: the id the operation gets (++op_cycle on a u16)
NextCycle(cycle) == (cycle + 1) % U16

\* a lookup that does not compare ids: the head of the pending list
PendingFindAnyId(operation_id) ==
    IF pending = <<>> THEN 0 ELSE pending[1]

\* gb_pending_operation_find: the first operation of the pending list with
\* that id, or 0 (NULL)
gb_pending_operation_find(operation_id) ==
    LET hits == {i \in 1..Len(pending) : ops[pending[i]].id = operation_id} IN
    IF hits = {} THEN 0
    ELSE pending[CHOOSE i \in hits : \A j \in hits : i <= j]

(* ------------------------------ complete ------------------------------ *)
\* a gb_operation_complete that calls complete_all whatever the callback
CompleteAlwaysSignals(operation) == [operation EXCEPT !.completion = TRUE]

\* gb_operation_complete: the object afterwards (complete_all sets the
\* completion; a callback leaves the object alone)
CompletedOperation(operation) ==
    IF operation.callback THEN operation
    ELSE [operation EXCEPT !.completion = TRUE]

\* the record of one call of gb_operation_complete: the result the operation
\* carried, the channel the completion went through, and the caller
CompleteEntry(operation, caller) ==
    [result |-> operation.result,
     via |-> IF operation.callback THEN "callback" ELSE "completion",
     caller |-> caller]

(* ------------------------------- submit ------------------------------- *)
\* a submit that does not look at the connection's state
SubmitNeverRefused == FALSE

\* the test gb_operation_request_send starts with
SubmitRefused == conn_state # "ENABLED"

\* gb_operation_request_send up to and including gb_pending_operation_insert
RequestSendBegin(o, callback) ==
    /\ Running
    /\ alloc[o] = "live"
    /\ pc[o] = "idle"
    /\ IF SubmitRefused
       THEN /\ ret' = [ret EXCEPT ![o] = -ENOTCONN]
            /\ pc' = [pc EXCEPT ![o] = "returned"]
            /\ UNCHANGED <<op_cycle, operations, pending, ops>>
       ELSE /\ op_cycle' = NextCycle(op_cycle)
            /\ ops' = [ops EXCEPT ![o].callback = callback,
                                  ![o].id = NextCycle(op_cycle),
                                  ![o].request.header.operation_id = NextCycle(op_cycle)]
            /\ operations' = SeqRemove(operations, o)
            /\ pending' = ListAddTail(pending, o)
            /\ pc' = [pc EXCEPT ![o] = "inserted"]
            /\ UNCHANGED ret
    /\ UNCHANGED <<conn_state, protocol_handler, cache_objects, alloc, timeout_work,
                   recv_workqueue,
                   hd_fill, pm_vars, hd_buffers, hd_bad_free, hd_inflight, hd_cancel_calls,
                   hd_stale_cancel, complete_log, handler_calls, fault, conn_err>>

\* a gb_message_send that leaves the error pointer in the cookie
FailedSendCookieKept == TRUE

\* gb_message_send on failure: message->cookie = NULL
FailedSendCookie == FALSE

\* gb_message_send of the request, and the return on its failure
RequestSendMessage(o, send_ok) ==
    /\ Running
    /\ pc[o] = "inserted"
    /\ IF send_ok
       THEN /\ ops' = [ops EXCEPT ![o].request.cookie = TRUE]
            /\ hd_inflight' = hd_inflight \cup {o}
            /\ pc' = [pc EXCEPT ![o] = "sent"]
            /\ UNCHANGED ret
       ELSE /\ ops' = [ops EXCEPT ![o].request.cookie = FailedSendCookie]
            /\ ret' = [ret EXCEPT ![o] = -EIO]
            /\ pc' = [pc EXCEPT ![o] = "returned"]
            /\ UNCHANGED hd_inflight
    /\ UNCHANGED <<conn_state, op_cycle, operations, pending, protocol_handler,
                   cache_objects, alloc,
                   timeout_work, recv_workqueue, hd_fill, pm_vars, hd_buffers, hd_bad_free,
                   hd_cancel_calls, hd_stale_cancel, complete_log, handler_calls, fault, conn_err>>

\* schedule_delayed_work on the timeout, then either return 0 (callback
\* given) or enter gb_operation_wait
RequestSendArm(o) ==
    /\ Running
    /\ pc[o] = "sent"
    /\ timeout_work' = IF timeout_work[o] = "idle"
                       THEN [timeout_work EXCEPT ![o] = "armed"]
                       ELSE timeout_work
    /\ IF ops[o].callback
       THEN /\ ret' = [ret EXCEPT ![o] = 0]
            /\ pc' = [pc EXCEPT ![o] = "returned"]
       ELSE /\ pc' = [pc EXCEPT ![o] = "waiting"]
            /\ UNCHANGED ret
    /\ UNCHANGED <<conn_state, op_cycle, operations, pending, protocol_handler,
                   cache_objects, alloc,
                   ops, recv_workqueue, hd_fill, pm_vars, hd_buffers, hd_bad_free, hd_inflight,
                   hd_cancel_calls, hd_stale_cancel, complete_log, handler_calls, fault, conn_err>>

\* gb_message_cancel of the request message: what the host device sees
MessageCancel(o) ==
    IF ops[o].request.cookie
    THEN /\ hd_cancel_calls' = [hd_cancel_calls EXCEPT ![o] = @ + 1]
         /\ hd_stale_cancel' = (hd_stale_cancel \/ o \notin hd_inflight)
         /\ hd_inflight' = hd_inflight \ {o}
    ELSE UNCHANGED <<hd_cancel_calls, hd_stale_cancel, hd_inflight>>

\* gb_operation_wait returns 0: the completion has been signalled
WaitDone(o) ==
    /\ Running
    /\ pc[o] = "waiting"
    /\ ops[o].completion
    /\ ret' = [ret EXCEPT ![o] = 0]
    /\ pc' = [pc EXCEPT ![o] = "returned"]
    /\ UNCHANGED <<conn_state, op_cycle, operations, pending, protocol_handler,
                   cache_objects, alloc,
                   ops, timeout_work, recv_workqueue, hd_fill, pm_vars, hd_buffers, hd_bad_free,
                   hd_inflight, hd_cancel_calls, hd_stale_cancel, complete_log,
                   handler_calls, fault, conn_err>>

\* gb_operation_wait is interrupted before the completion is signalled
WaitInterrupted(o) ==
    /\ Running
    /\ pc[o] = "waiting"
    /\ ~ops[o].completion
    /\ MessageCancel(o)
    /\ ret' = [ret EXCEPT ![o] = -ERESTARTSYS]
    /\ pc' = [pc EXCEPT ![o] = "returned"]
    /\ UNCHANGED <<conn_state, op_cycle, operations, pending, protocol_handler,
                   cache_objects, alloc,
                   ops, timeout_work, recv_workqueue, hd_fill, pm_vars, hd_buffers, hd_bad_free,
                   complete_log, handler_calls, fault, conn_err>>

gb_operation_request_send ==
    \/ \E o \in Ops, callback \in BOOLEAN : RequestSendBegin(o, callback)
    \/ \E o \in Ops, send_ok \in BOOLEAN : RequestSendMessage(o, send_ok)
    \/ \E o \in Ops : RequestSendArm(o)
    \/ \E o \in Ops : WaitDone(o)
    \/ \E o \in Ops : WaitInterrupted(o)

(* ------------------------------ timeout ------------------------------- *)
\* what a handler that runs on an object already returned to the cache does:
\* it finds the memory as it was left ("intact") or it does not get to act
FreedOutcomes == {"intact", "lost"}

\* the delay of the timeout's delayed work runs out: the work stops being
\* pending and its handler starts
TimeoutExpire(o) ==
    /\ Running
    /\ timeout_work[o] = "armed"
    /\ timeout_work' = [timeout_work EXCEPT ![o] = "running"]
    /\ UNCHANGED <<conn_state, op_cycle, operations, pending, protocol_handler,
                   cache_objects, alloc,
                   ops, recv_workqueue, pc, ret, hd_fill, pm_vars, hd_buffers, hd_bad_free,
                   hd_inflight, hd_cancel_calls, hd_stale_cancel, complete_log,
                   handler_calls, fault, conn_err>>

\* the object after operation_timeout
TimedOutOperation(operation) ==
    CompletedOperation([operation EXCEPT !.result = GB_OP_TIMEOUT])

\* operation_timeout
operation_timeout(o, outcome) ==
    /\ Running
    /\ timeout_work[o] = "running"
    /\ (outcome = "lost" => alloc[o] = "destroyed")
    /\ timeout_work' = [timeout_work EXCEPT ![o] = "idle"]
    /\ fault' = IF alloc[o] = "destroyed" THEN "use_after_free" ELSE fault
    /\ IF outcome = "lost"
       THEN UNCHANGED <<ops, complete_log>>
       ELSE /\ ops' = [ops EXCEPT ![o] = TimedOutOperation(ops[o])]
            /\ complete_log' = [complete_log EXCEPT
                                  ![o] = Append(@, CompleteEntry(ops'[o], "timeout"))]
    /\ UNCHANGED <<conn_state, op_cycle, operations, pending, protocol_handler,
                   cache_objects, alloc,
                   recv_workqueue, pc, ret, hd_fill, pm_vars, hd_buffers, hd_bad_free,
                   hd_inflight, hd_cancel_calls, hd_stale_cancel, handler_calls, conn_err>>

(* ------------------------------- cancel ------------------------------- *)
\* calls of buffer_cancel per request cookie the runs go up to
MaxCancelCalls == 2

\* gb_operation_cancel, called by the holder of the creator's reference when
\* it is not inside gb_operation_request_send.  The response message of an
\* operation is never sent, so its cookie is NULL and its cancel does nothing.
\* a gb_operation_cancel that also signals the completion
CancelFlagCompletes(operation) ==
    [operation EXCEPT !.canceled = TRUE, !.completion = TRUE]

\* gb_operation_cancel: operation->canceled = true
CancelFlag(operation) == [operation EXCEPT !.canceled = TRUE]

gb_operation_cancel(o) ==
    /\ Running
    /\ alloc[o] = "live"
    /\ pc[o] \in {"idle", "returned"}
    /\ ops[o].kref = 1
    /\ hd_cancel_calls[o] < MaxCancelCalls
    /\ ops' = [ops EXCEPT ![o] = CancelFlag(@)]
    /\ MessageCancel(o)
    /\ UNCHANGED <<conn_state, op_cycle, operations, pending, protocol_handler,
                   cache_objects, alloc,
                   timeout_work, recv_workqueue, pc, ret, hd_fill, pm_vars, hd_buffers,
                   hd_bad_free, complete_log, handler_calls, fault, conn_err>>

(* ------------------------- receive dispatcher ------------------------- *)
\* queue_work: a work item already queued is not queued twice
QueueWork(queue, o) == IF o \in SeqToSet(queue) THEN queue ELSE Append(queue, o)

\* cancel_delayed_work: takes a pending work out of the timer, leaves a
\* running handler alone
CancelDelayedWork(state) == IF state = "armed" THEN "idle" ELSE state

\* the response message after the "hack the status" assignment and the
\* memcpy that follows it when the status is GB_OP_SUCCESS
ReceivedResponse(message, frame) ==
    LET status == message.payload0 IN
    IF status = GB_OP_SUCCESS
    THEN [message EXCEPT
            !.header = [size |-> frame.size, operation_id |-> frame.operation_id,
                        type |-> frame.type, result |-> frame.result],
            !.payload0 = IF frame.size > HDR_SIZE THEN PayloadMark ELSE @]
    ELSE [message EXCEPT !.header.result = status]

\* a gb_pending_operation_remove that only unlinks the operation
PendingRemoveUnlinks(list, o) == list

\* gb_pending_operation_remove: list_move_tail onto connection->operations
gb_pending_operation_remove(list, o) == ListAddTail(list, o)

\* gb_connection_recv_response
gb_connection_recv_response(frame) ==
    LET o == gb_pending_operation_find(frame.operation_id) IN
    IF o = 0
    THEN UNCHANGED <<operations, pending, ops, timeout_work, recv_workqueue>>
    ELSE /\ timeout_work' = [timeout_work EXCEPT ![o] = CancelDelayedWork(@)]
         /\ pending' = SeqRemove(pending, o)
         /\ operations' = gb_pending_operation_remove(operations, o)
         /\ IF frame.size > ops[o].response.buffer_size
            THEN /\ ops' = [ops EXCEPT ![o].result = GB_OP_OVERFLOW]
                 /\ UNCHANGED recv_workqueue
            ELSE /\ ops' = [ops EXCEPT
                              ![o].result = ops[o].response.payload0,
                              ![o].response = ReceivedResponse(ops[o].response, frame)]
                 /\ recv_workqueue' = QueueWork(recv_workqueue, o)

\* gb_connection_recv_request: the incoming operation takes the lowest object
\* of the cache; with none left the allocation fails
gb_connection_recv_request(frame, outcome) ==
    LET o == FreeOp
        how == IF o = 0 THEN "nomem_operation" ELSE outcome
        status == CreateStatus(FALSE, frame.size, 0, how) IN
    IF status # "ok"
    THEN UNCHANGED <<operations, alloc, ops, recv_workqueue, pc, hd_buffers>>
    ELSE /\ alloc' = [alloc EXCEPT ![o] = "live"]
         /\ operations' = ListAddTail(operations, o)
         /\ hd_buffers' = [hd_buffers EXCEPT
                             ![o] = [request |-> "allocated", response |-> "none"]]
         /\ ops' = [ops EXCEPT
                      ![o] = [CreatedOperation(FALSE, frame.type, frame.size, 0) EXCEPT
                                !.id = frame.operation_id,
                                !.request.header =
                                    [size |-> frame.size,
                                     operation_id |-> frame.operation_id,
                                     type |-> frame.type, result |-> frame.result],
                                !.request.payload0 = PayloadMark]]
         /\ recv_workqueue' = QueueWork(recv_workqueue, o)
         /\ pc' = [pc EXCEPT ![o] = "incoming"]

\* which way gb_connection_recv goes with a frame
\* a gb_connection_recv that trusts the size of the header
IncompleteNeverChecked(frame) == FALSE

\* gb_connection_recv: msg_size > size
IncompleteMessage(frame) == frame.size > frame.n

RecvRoute(frame) ==
    IF conn_state # "ENABLED" THEN "drop_disabled"
    ELSE IF frame.n < HDR_SIZE THEN "drop_small"
    ELSE IF IncompleteMessage(frame) THEN "drop_incomplete"
    ELSE IF IsResponseType(frame.type) THEN "response"
    ELSE "request"

\* what gb_connection_recv and the path it takes log through
\* gb_connection_err for a frame (nothing when the frame is accepted)
RecvError(frame, outcome) ==
    CASE RecvRoute(frame) = "drop_disabled" -> "dropping received bytes"
      [] RecvRoute(frame) = "drop_small" -> "message too small"
      [] RecvRoute(frame) = "drop_incomplete" -> "incomplete message"
      [] RecvRoute(frame) = "response" ->
            IF gb_pending_operation_find(frame.operation_id) = 0
            THEN "operation not found"
            ELSE IF frame.size >
                    ops[gb_pending_operation_find(frame.operation_id)].response.buffer_size
            THEN "recv buffer too small"
            ELSE conn_err
      [] OTHER ->
            IF CreateStatus(FALSE, frame.size, 0,
                            IF FreeOp = 0 THEN "nomem_operation" ELSE outcome) # "ok"
            THEN "can't create operation"
            ELSE conn_err

\* gb_connection_recv, called by the host device with the bytes it received
gb_connection_recv(frame, outcome) ==
    /\ Running
    /\ CASE RecvRoute(frame) = "response" ->
              /\ outcome = "ok"
              /\ gb_connection_recv_response(frame)
              /\ UNCHANGED <<alloc, pc, hd_buffers>>
         [] RecvRoute(frame) = "request" ->
              /\ gb_connection_recv_request(frame, outcome)
              /\ UNCHANGED <<pending, timeout_work>>
         [] OTHER ->
              /\ outcome = "ok"
              /\ UNCHANGED <<operations, pending, alloc, ops, timeout_work,
                             recv_workqueue, pc, hd_buffers>>
    /\ conn_err' = RecvError(frame, outcome)
    /\ UNCHANGED <<conn_state, op_cycle, protocol_handler, cache_objects, ret, hd_fill, pm_vars,
                   hd_bad_free, hd_inflight, hd_cancel_calls, hd_stale_cancel,
                   complete_log, handler_calls, fault>>

(* ---------------------- deferred completion runner -------------------- *)
\* what a registered request handler does with the incoming operation:
\* nothing ("returns"); attaches a one-byte response and calls
\* gb_operation_response_send ("responds"); or calls
\* gb_operation_response_send with no response attached ("response_send")
HandlerBehaviours == {"returns", "responds", "response_send"}

\* how a run of recv_work on an incoming request ends: "done" when every
\* access was to live memory; "intact" or "lost" for gb_operation_complete on
\* an object the handler has destroyed; "oops" when the destroy itself
\* stopped at the null message->operation
WorkOutcomes == {"done", "intact", "lost", "oops"}

\* the recv_work of operation o is queued and a worker may start it.
\* gb_operation_recv_workqueue is made by alloc_workqueue("greybus_recv", 0, 1):
\* without WQ_UNBOUND it is a per-CPU workqueue and max_active = 1 limits
\* each CPU to one running work, so the works queued by calls of
\* gb_connection_recv on different CPUs are started in any order.  The
\* sequence recv_workqueue keeps the order in which they were queued.
WorkPending(o) == o \in SeqToSet(recv_workqueue)

\* gb_operation_recv_work on an operation whose response has arrived
RecvWorkResponse(o) ==
    /\ Running
    /\ WorkPending(o)
    /\ alloc[o] = "live"
    /\ ops[o].response.buffer
    /\ recv_workqueue' = SeqRemove(recv_workqueue, o)
    /\ ops' = [ops EXCEPT ![o] = CompletedOperation(ops[o])]
    /\ complete_log' = [complete_log EXCEPT
                          ![o] = Append(@, CompleteEntry(ops[o], "recv_work"))]
    /\ UNCHANGED <<conn_state, op_cycle, operations, pending, protocol_handler,
                   cache_objects, alloc,
                   timeout_work, pc, ret, hd_fill, pm_vars, hd_buffers, hd_bad_free,
                   hd_inflight, hd_cancel_calls, hd_stale_cancel, handler_calls, fault, conn_err>>

\* a gb_operation_request_handle that logs but leaves the result alone
UnhandledRequestLogged(operation) == operation

\* gb_operation_request_handle when the protocol has no request_recv: the
\* operation afterwards
UnhandledRequest(operation) == [operation EXCEPT !.result = GB_OP_PROTOCOL_BAD]

\* gb_operation_recv_work on an incoming request: gb_operation_request_handle,
\* then gb_operation_complete.  gb_operation_response_send is
\* gb_operation_destroy, which drops the only reference.
RecvWorkRequest(o, behaviour, outcome) ==
    /\ Running
    /\ WorkPending(o)
    /\ alloc[o] = "live"
    /\ ~ops[o].response.buffer
    /\ recv_workqueue' = SeqRemove(recv_workqueue, o)
    /\ handler_calls' = IF protocol_handler
                        THEN [handler_calls EXCEPT ![o] = @ + 1]
                        ELSE handler_calls
    /\ IF ~protocol_handler \/ behaviour = "returns"
       THEN /\ behaviour = "returns"
            /\ outcome = "done"
            /\ ops' = [ops EXCEPT
                         ![o] = CompletedOperation(
                                  IF protocol_handler THEN ops[o]
                                  ELSE UnhandledRequest(ops[o]))]
            /\ complete_log' = [complete_log EXCEPT
                                  ![o] = Append(@, CompleteEntry(ops'[o], "recv_work"))]
            /\ UNCHANGED <<operations, alloc, hd_buffers, hd_bad_free, fault>>
       ELSE /\ operations' = SeqRemove(operations, o)
            /\ IF behaviour = "response_send" /\ outcome = "oops"
               THEN \* the destroy stops in gb_operation_message_exit of the response
                    /\ fault' = "null_deref"
                    /\ ops' = [ops EXCEPT ![o].kref = 0]
                    /\ UNCHANGED <<alloc, hd_buffers, hd_bad_free, complete_log>>
               ELSE /\ outcome \in {"intact", "lost"}
                    /\ fault' = "use_after_free"
                    /\ alloc' = [alloc EXCEPT ![o] = "destroyed"]
                    /\ hd_buffers' = [hd_buffers EXCEPT
                                        ![o] = [request |-> "freed",
                                                response |-> IF behaviour = "responds"
                                                             THEN "freed" ELSE "none"]]
                    /\ hd_bad_free' = (hd_bad_free \/ behaviour = "response_send")
                    /\ ops' = [ops EXCEPT
                                 ![o] = [@ EXCEPT
                                           !.kref = 0,
                                           !.request = MessageExit(ops[o].request),
                                           !.completion = (outcome = "intact")]]
                    /\ complete_log' =
                         IF outcome = "intact"
                         THEN [complete_log EXCEPT
                                 ![o] = Append(@, CompleteEntry(ops[o], "recv_work"))]
                         ELSE complete_log
    /\ conn_err' = IF protocol_handler THEN conn_err
                   ELSE "unexpected incoming request type"
    /\ UNCHANGED <<conn_state, op_cycle, pending, protocol_handler, cache_objects,
                   timeout_work, pc, ret, hd_fill, pm_vars, hd_inflight, hd_cancel_calls,
                   hd_stale_cancel>>

\* what recv_work does on an object already returned to the cache: the
\* outcomes of the timeout handler, and "handled" when it finds the response
\* buffer pointer as _gb_operation_destroy left it (NULL), takes the object
\* for an incoming request and goes through gb_operation_request_handle
WorkFreedOutcomes == FreedOutcomes \cup {"handled"}

\* gb_operation_recv_work on an object that was destroyed while its work was queued
RecvWorkFreed(o, outcome) ==
    /\ Running
    /\ WorkPending(o)
    /\ alloc[o] = "destroyed"
    /\ recv_workqueue' = SeqRemove(recv_workqueue, o)
    /\ fault' = "use_after_free"
    /\ CASE outcome = "intact" ->
              /\ ops' = [ops EXCEPT ![o] = CompletedOperation(ops[o])]
              /\ complete_log' = [complete_log EXCEPT
                                    ![o] = Append(@, CompleteEntry(ops[o], "recv_work"))]
              /\ UNCHANGED <<handler_calls, conn_err>>
         [] outcome = "handled" ->
              /\ ~ops[o].response.buffer
              /\ handler_calls' = IF protocol_handler
                                  THEN [handler_calls EXCEPT ![o] = @ + 1]
                                  ELSE handler_calls
              /\ conn_err' = IF protocol_handler THEN conn_err
                             ELSE "unexpected incoming request type"
              /\ ops' = [ops EXCEPT
                           ![o] = CompletedOperation(
                                    IF protocol_handler THEN ops[o]
                                    ELSE UnhandledRequest(ops[o]))]
              /\ complete_log' = [complete_log EXCEPT
                                    ![o] = Append(@, CompleteEntry(ops'[o], "recv_work"))]
         [] OTHER -> UNCHANGED <<ops, complete_log, handler_calls, conn_err>>
    /\ UNCHANGED <<conn_state, op_cycle, operations, pending, protocol_handler,
                   cache_objects, alloc,
                   timeout_work, pc, ret, hd_fill, pm_vars, hd_buffers, hd_bad_free,
                   hd_inflight, hd_cancel_calls, hd_stale_cancel>>

gb_operation_recv_work ==
    \/ \E o \in Ops : RecvWorkResponse(o)
    \/ \E o \in Ops, behaviour \in HandlerBehaviours, outcome \in WorkOutcomes :
          RecvWorkRequest(o, behaviour, outcome)
    \/ \E o \in Ops, outcome \in WorkFreedOutcomes : RecvWorkFreed(o, outcome)

(* --------------------------- the environment -------------------------- *)
\* the host device finishes sending a request buffer: the send is over
BufferSent(o) ==
    /\ Running
    /\ o \in hd_inflight
    /\ hd_inflight' = hd_inflight \ {o}
    /\ UNCHANGED <<conn_state, op_cycle, operations, pending, protocol_handler,
                   cache_objects, alloc,
                   ops, timeout_work, recv_workqueue, pc, ret, hd_fill, pm_vars, hd_buffers,
                   hd_bad_free, hd_cancel_calls, hd_stale_cancel, complete_log,
                   handler_calls, fault, conn_err>>

\* the connection leaves the enabled state
ConnectionDisable ==
    /\ Running
    /\ conn_state = "ENABLED"
    /\ conn_state' = "DISABLED"
    /\ UNCHANGED <<op_cycle, operations, pending, protocol_handler, cache_objects, alloc, ops,
                   timeout_work, recv_workqueue, pc, ret, hd_fill, pm_vars, hd_buffers,
                   hd_bad_free, hd_inflight, hd_cancel_calls, hd_stale_cancel,
                   complete_log, handler_calls, fault, conn_err>>

(* ------------------------------- Next --------------------------------- *)
\* the frames gb_connection_recv takes as requests
RequestFrames == {frame \in Frames : frame.n >= HDR_SIZE /\ frame.size <= frame.n
                                      /\ ~IsResponseType(frame.type)}

Next ==
    \/ \E o \in Ops, request_size \in RequestSizes, response_size \in ResponseSizes,
          outcome \in CreateOutcomes :
          gb_operation_create(o, request_size, response_size, outcome)
    \/ \E o \in Ops, outcome \in DestroyOutcomes : gb_operation_put(o, outcome)
    \/ gb_operation_request_send
    \/ \E o \in Ops : TimeoutExpire(o)
    \/ \E o \in Ops, outcome \in FreedOutcomes : operation_timeout(o, outcome)
    \/ \E o \in Ops : gb_operation_cancel(o)
    \/ \E frame \in Frames : gb_connection_recv(frame, "ok")
    \/ \E frame \in RequestFrames, outcome \in {"nomem_operation", "nomem_request"} :
          gb_connection_recv(frame, outcome)
    \/ gb_operation_recv_work
    \/ \E o \in Ops : BufferSent(o)
    \/ ConnectionDisable

Spec == Init /\ [][Next]_vars

(* ------------------- several operations at a time --------------------- *)
\* NumOps operations on a connection whose host driver zeroes its buffers:
\* a new connection, one whose counter is at the top of its range, and one
\* whose counter has wrapped under a pending operation
InitPair ==
    /\ InitCommon
    /\ cache_objects = NumOps
    /\ protocol_handler = TRUE
    /\ hd_fill = 0
    /\ \/ op_cycle \in InitCycles /\ InitClean
       \/ InitWrapped

\* the response frames the transport delivers in the runs of SpecPair
PairFrames ==
    {[n |-> 12, size |-> 12, operation_id |-> id, type |-> 129, result |-> 0] :
        id \in FrameIds}

\* asynchronous submitters whose sends succeed, responses, timeouts, releases
NextPair ==
    \/ \E o \in Ops : gb_operation_create(o, 2, 4, "ok")
    \/ \E o \in Ops : gb_operation_put(o, "proceeds")
    \/ \E o \in Ops : RequestSendBegin(o, TRUE)
    \/ \E o \in Ops : RequestSendMessage(o, TRUE)
    \/ \E o \in Ops : RequestSendArm(o)
    \/ \E o \in Ops : TimeoutExpire(o)
    \/ \E o \in Ops, outcome \in FreedOutcomes : operation_timeout(o, outcome)
    \/ \E frame \in PairFrames : gb_connection_recv(frame, "ok")
    \/ \E o \in Ops : RecvWorkResponse(o)
    \/ \E o \in Ops, outcome \in WorkFreedOutcomes : RecvWorkFreed(o, outcome)

SpecPair == InitPair /\ [][NextPair]_vars

\* the same runs with the scheduling the kernel gives: a delayed work whose
\* delay was started runs out and its handler runs (workqueue), a submitter
\* inside gb_operation_request_send goes on to its next statement, and the
\* connection's single-threaded receive workqueue runs what is queued on it.
\* Nothing makes the holder of a reference release it, or a frame arrive.
SpecFair ==
    /\ InitPair
    /\ [][NextPair]_vars
    /\ WF_vars(\E o \in Ops : TimeoutExpire(o))
    /\ WF_vars(\E o \in Ops, outcome \in FreedOutcomes : operation_timeout(o, outcome))
    /\ WF_vars(\E o \in Ops : RequestSendMessage(o, TRUE) \/ RequestSendArm(o))
    /\ WF_vars(\E o \in Ops : RecvWorkResponse(o))

\* the power management of a device whose Greybus connection is at rest
InitPm ==
    /\ InitCommon
    /\ cache_objects = NumSolo
    /\ protocol_handler = TRUE
    /\ hd_fill = 0
    /\ op_cycle = 0
    /\ InitClean

SpecPm == InitPm /\ [][NextPm]_vars

(* ------------------------------ properties ---------------------------- *)
Pending == SeqToSet(pending)

Queued == SeqToSet(recv_workqueue)

\* calls of gb_operation_complete on the operation so far
Completes(o) == Len(complete_log[o])

\* the operation's timeout handler has started, or has run
TimeoutFired(o) ==
    \/ timeout_work[o] = "running"
    \/ \E i \in 1..Len(complete_log[o]) : complete_log[o][i].caller = "timeout"

\* C1: gb_operation_complete is invoked exactly once per operation; stated
\* here is the half a finite run refutes, that it is never invoked twice
\* (once from the timeout and once from the deferred runner).
C1_CompleteAtMostOnce == \A o \in Ops : Completes(o) <= 1

\* C2: no two operations in the pending list of the connection have the same
\* id, also after the 16-bit counter has wrapped under a pending operation.
C2_PendingIdsUnique ==
    \A i, j \in 1..Len(pending) :
        i # j => ops[pending[i]].id # ops[pending[j]].id

\* C3: no operation in the pending list has id 0, and the id written into
\* its request header is not 0.
C3_NoZeroIdPending ==
    \A o \in Pending :
        ops[o].id # 0 /\ ops[o].request.header.operation_id # 0

\* C4: once gb_operation_complete has returned for an operation, the
\* operation is not in the pending list, whoever called it.
C4_CompletedNotPending == \A o \in Ops : Completes(o) > 0 => o \notin Pending

\* C5: once an operation's timeout handler has started or finished, no step
\* copies a frame into its response buffer, changes its result away from
\* GB_OP_TIMEOUT, or enqueues it to the deferred runner.
C5_LateResponseDropped ==
    [][\A o \in Ops :
          (TimeoutFired(o) /\ alloc[o] = "live" /\ alloc'[o] = "live") =>
              /\ ops'[o].response = ops[o].response
              /\ (ops[o].result = GB_OP_TIMEOUT => ops'[o].result = GB_OP_TIMEOUT)
              /\ (o \in SeqToSet(recv_workqueue') => o \in Queued)]_vars

\* gb_operation_request_send has handed the request to the host device
\* (line 419 returned 0) and goes on to start the timeout
SendSucceeded(o) == alloc[o] = "live" /\ pc[o] = "sent"

\* a response with the operation's id was delivered to gb_connection_recv
\* while the operation was pending
ResponseMatched(o) ==
    \/ o \in Queued
    \/ ops[o].result = GB_OP_OVERFLOW
    \/ \E i \in 1..Len(complete_log[o]) : complete_log[o][i].caller = "recv_work"

\* operation_timeout called gb_operation_complete with the result GB_OP_TIMEOUT
TimeoutDelivered(o) ==
    \E i \in 1..Len(complete_log[o]) :
        /\ complete_log[o][i].caller = "timeout"
        /\ complete_log[o][i].result = GB_OP_TIMEOUT

C7_OverflowCompletes ==
    \A o \in Ops :
        (alloc[o] = "live" /\ ops[o].result = GB_OP_OVERFLOW) =>
            /\ ops[o].response.payload0 = hd_fill
            /\ ops[o].response.header.size = ops[o].response.buffer_size
            /\ \/ Completes(o) >= 1
               \/ o \in Queued
               \/ timeout_work[o] # "idle"
               \/ pc[o] \in {"inserted", "sent"}

\* C8: a step of gb_connection_recv on a response frame whose operation_id
\* is the id of no operation in the pending list changes no operation, list,
\* timer, queue or completion.
C8_UnmatchedResponseNoEffect ==
    [][\/ UNCHANGED <<operations, pending, alloc, ops, timeout_work,
                      recv_workqueue, pc, ret, hd_buffers, hd_bad_free,
                      hd_inflight, hd_cancel_calls, complete_log, handler_calls>>
       \/ \A frame \in Frames :
             ~(/\ RecvRoute(frame) = "response"
               /\ \A p \in Pending : ops[p].id # frame.operation_id
               /\ conn_err' = RecvError(frame, "ok")
               /\ gb_connection_recv(frame, "ok"))]_vars

\* C8 witness: the dispatcher has dropped a response as "operation not
\* found" and an operation with another id is awaiting its response.
C8_Witness ==
    /\ conn_err = "operation not found"
    /\ \E o \in Pending : timeout_work[o] = "armed" /\ Completes(o) = 0

\* C9: buffer_free is never called on a buffer that is not allocated, and
\* once an operation's last reference is gone both its buffers are freed.
C9_BuffersFreedOnce ==
    /\ ~hd_bad_free
    /\ \A o \in Ops :
          (alloc[o] # "free" /\ ops[o].kref = 0) =>
              /\ hd_buffers[o].request # "allocated"
              /\ hd_buffers[o].response # "allocated"

\* C10: after a synchronous submit returned the interrupted status,
\* buffer_cancel has been called on the request's cookie and
\* gb_operation_complete has been invoked at most once for the operation.
C10_InterruptedWait ==
    \A o \in Ops :
        ret[o] = -ERESTARTSYS =>
            /\ hd_cancel_calls[o] >= 1
            /\ Completes(o) <= 1

\* a synchronous gb_operation_request_send has returned 0
SyncReturnedZero(o) == pc[o] = "returned" /\ ret[o] = 0 /\ ~ops[o].callback

\* gb_connection_recv is handed, before the timeout of the synchronous
\* submitter o has run out, a response frame that carries o's id and the
\* result byte 0 and fits o's response buffer
SuccessResponseStep(o, frame) ==
    /\ pc[o] = "waiting"
    /\ timeout_work[o] = "armed"
    /\ frame.result = GB_OP_SUCCESS
    /\ RecvRoute(frame) = "response"
    /\ gb_pending_operation_find(frame.operation_id) = o
    /\ frame.size <= ops[o].response.buffer_size
    /\ conn_err' = RecvError(frame, "ok")
    /\ gb_connection_recv(frame, "ok")

\* C11: a synchronous submit whose send succeeded does not return 0 before
\* gb_operation_complete was called for the operation; and a response with
\* result byte 0 and the operation's id, delivered before the timeout,
\* leaves the operation with result 0, out of pending and on its way to the
\* runner that wakes the submitter.
C11_SyncSubmitSuccess ==
    /\ [](\A o \in Ops : SyncReturnedZero(o) => Completes(o) >= 1)
    /\ [][\A o \in Ops, frame \in Frames :
            SuccessResponseStep(o, frame) =>
                /\ ops'[o].result = GB_OP_SUCCESS
                /\ o \notin SeqToSet(pending')
                /\ o \in SeqToSet(recv_workqueue')]_vars


\* the request handler has run on the incoming operation, attached a
\* response to it and called gb_operation_response_send
HandlerResponded(o) ==
    /\ pc[o] = "incoming"
    /\ handler_calls[o] >= 1
    /\ hd_buffers[o].response # "none"

\* C12: for an incoming request whose handler attaches a response and calls
\* gb_operation_response_send, the runner calls gb_operation_complete exactly
\* once and on a live operation: there is no use of the operation after its
\* destruction.
C12_HandledRequestCompletes ==
    \A o \in Ops :
        HandlerResponded(o) => (fault = "none" /\ Completes(o) = 1)

\* an incoming request on a connection whose protocol has no request_recv
UnhandledIncoming(o) == pc[o] = "incoming" /\ ~protocol_handler

\* C13: an incoming request on a connection whose protocol registers no
\* request handler is, once the runner has taken it off its queue, marked
\* GB_OP_PROTOCOL_BAD and completed exactly once with that result; before
\* that it is not completed; no handler is ever called for it.
C13_NoHandlerProtocolBad ==
    \A o \in Ops :
        UnhandledIncoming(o) =>
            /\ handler_calls[o] = 0
            /\ IF o \in Queued
               THEN Completes(o) = 0
               ELSE /\ ops[o].result = GB_OP_PROTOCOL_BAD
                    /\ Completes(o) = 1
                    /\ complete_log[o][1].result = GB_OP_PROTOCOL_BAD
                    /\ complete_log[o][1].caller = "recv_work"

\* C13 witness: the runner has completed such a request and logged the error
C13_Witness ==
    \E o \in Ops :
        /\ UnhandledIncoming(o)
        /\ Completes(o) = 1
        /\ ops[o].result = GB_OP_PROTOCOL_BAD
        /\ conn_err = "unexpected incoming request type"

\* C14: gb_operation_request_send on a connection that is not enabled
\* returns -ENOTCONN and changes nothing else: no id is assigned, the
\* operation stays in the operations list, nothing goes to the transport, no
\* timeout is armed and nothing is completed.
C14_NotConnectedNoEffect ==
    [][\A o \in Ops, callback \in BOOLEAN :
          (conn_state # "ENABLED" /\ RequestSendBegin(o, callback)) =>
              /\ ret'[o] = -ENOTCONN
              /\ pc'[o] = "returned"
              /\ o \in SeqToSet(operations') /\ o \notin SeqToSet(pending')
              /\ ops'[o].id = 0
              /\ UNCHANGED <<conn_state, op_cycle, operations, pending, alloc, ops,
                             timeout_work, recv_workqueue, hd_buffers, hd_bad_free,
                             hd_inflight, hd_cancel_calls, hd_stale_cancel,
                             complete_log, handler_calls, conn_err, fault>>]_vars

\* C14 witness: a submit was refused with -ENOTCONN on a disabled connection
C14_Witness ==
    \E o \in Ops :
        /\ conn_state # "ENABLED"
        /\ alloc[o] = "live"
        /\ pc[o] = "returned"
        /\ ret[o] = -ENOTCONN
        /\ o \in SeqToSet(operations)

\* gb_operation_request_send returned the transport's error and the caller
\* still holds the operation
SendFailed(o) == alloc[o] = "live" /\ pc[o] = "returned" /\ ret[o] = -EIO

\* what a failed send leaves behind whatever arrives later: the id that was
\* assigned, a null request cookie and an idle timeout
SendFailedLeaves(o) ==
    /\ ops[o].id = ops[o].request.header.operation_id
    /\ ~ops[o].request.cookie
    /\ timeout_work[o] = "idle"

CancelView(o) ==
    [canceled |-> ops[o].canceled,
     result |-> ops[o].result,
     in_pending |-> o \in Pending,
     timeout |-> timeout_work[o],
     cookie |-> ops[o].request.cookie,
     inflight |-> o \in hd_inflight,
     cancel_calls |-> hd_cancel_calls[o],
     stale_cancel |-> hd_stale_cancel]

\* gb_operation_cancel as a function of that view
Cancelled(view) ==
    [view EXCEPT
        !.canceled = TRUE,
        !.cancel_calls = IF view.cookie THEN @ + 1 ELSE @,
        !.stale_cancel = IF view.cookie THEN (@ \/ ~view.inflight) ELSE @,
        !.inflight = IF view.cookie THEN FALSE ELSE @]

\* the operations their holder may call gb_operation_cancel on
Cancellable(o) == alloc[o] = "live" /\ pc[o] \in {"idle", "returned"} /\ ops[o].kref = 1

\* C16: gb_operation_cancel is idempotent.  Every step of gb_operation_cancel
\* has the effect of Cancelled on the operation's view, and in every
\* reachable state cancelling twice gives the view that cancelling once
\* gives, the transport's side included.
C16_CancelIdempotent ==
    /\ [][\A o \in Ops :
            gb_operation_cancel(o) => CancelView(o)' = Cancelled(CancelView(o))]_vars
    /\ [](\A o \in Ops :
            Cancellable(o) =>
                Cancelled(Cancelled(CancelView(o))) = Cancelled(CancelView(o)))

\* the first half of C16_CancelIdempotent alone: the function is the action
C16_CancelledIsTheAction ==
    [][\A o \in Ops :
          gb_operation_cancel(o) => CancelView(o)' = Cancelled(CancelView(o))]_vars

\* cpu_to_le16: the two bytes of a 16-bit value, low byte first
Le16(value) == <<value % 256, (value \div 256) % 256>>

\* le16_to_cpu
FromLe16(bytes) == bytes[1] + 256 * bytes[2]

\* the six bytes of struct gb_operation_msg_hdr at the head of a buffer
HeaderBytes(header) ==
    Le16(header.size) \o Le16(header.operation_id)
        \o <<header.type % 256, header.result % 256>>

\* the header fields as gb_connection_recv reads them out of received bytes
ParseHeader(bytes) ==
    [size |-> FromLe16(SubSeq(bytes, 1, 2)),
     operation_id |-> FromLe16(SubSeq(bytes, 3, 4)),
     type |-> bytes[5],
     result |-> bytes[6]]

\* payload sizes gb_operation_message_init accepts, the largest included
PermittedSizes == {0, 2, 248, 4088, GB_OPERATION_MESSAGE_SIZE_MAX}

\* the request of operation o has been handed to the host device
RequestEmitted(o) == alloc[o] = "live" /\ ops[o].request.cookie

\* the header the core means a request of operation o to carry: the whole
\* buffer's size, the id assigned at submit, the caller's type, result 0
IntendedHeader(o) ==
    [size |-> ops[o].request.buffer_size,
     operation_id |-> ops[o].id,
     type |-> 1,
     result |-> 0]

\* C17: the header of every request frame the core emits parses back to the
\* (size, id, type, result) the core intended, with result 0, and for every
\* permitted payload size the size field parses back to header size plus
\* payload size.
C17_HeaderRoundTrip ==
    /\ \A o \in Ops :
          RequestEmitted(o) =>
              ParseHeader(HeaderBytes(ops[o].request.header)) = IntendedHeader(o)
    /\ \A size \in PermittedSizes :
          /\ MessageInitStatus(size, TRUE) = "ok"
          /\ ParseHeader(HeaderBytes(MessageInit(1, size, TRUE).header)).size
                = size + HDR_SIZE

\* a create that allocates with GFP_KERNEL whatever it is asked for
GfpAlwaysKernel(response_size) == "GFP_KERNEL"

\* gb_operation_create_common: gfp_flags = response_size ? GFP_KERNEL : GFP_ATOMIC
CreateGfpFlags(response_size) ==
    IF response_size # 0 THEN "GFP_KERNEL" ELSE "GFP_ATOMIC"

\* the flags of the allocations gb_operation_create_common makes: the
\* operation and its request with gfp_flags, the response of an outgoing
\* operation with GFP_KERNEL
CreateAllocations(outgoing, response_size) ==
    {CreateGfpFlags(response_size)} \cup (IF outgoing THEN {"GFP_KERNEL"} ELSE {})

\* the flags of the allocations gb_connection_recv makes for a frame:
\* gb_connection_recv_request creates the incoming operation with
\* response_size 0, the other paths allocate nothing
RecvAllocations(frame) ==
    IF RecvRoute(frame) = "request" THEN CreateAllocations(FALSE, 0) ELSE {}

\* a step in which no request handler and no completion (callback or
\* complete_all) is invoked
NothingInvoked ==
    /\ handler_calls' = handler_calls
    /\ complete_log' = complete_log
    /\ \A o \in Ops : ops'[o].completion = ops[o].completion

\* C18: a step of gb_connection_recv, whatever the frame and however its
\* allocations turn out, invokes no completion callback and no request
\* handler, signals no completion, and allocates only with GFP_ATOMIC.
C18_DispatcherDefers ==
    /\ [](\A frame \in Frames : "GFP_KERNEL" \notin RecvAllocations(frame))
    /\ [][\/ NothingInvoked
          \/ \A frame \in Frames, outcome \in CreateOutcomes :
                ~gb_connection_recv(frame, outcome)]_vars

\* C18 witness: the dispatcher has created an incoming operation and left
\* it on the runner's queue, its handler not called and nothing completed
C18_Witness ==
    \E o \in Ops :
        /\ pc[o] = "incoming"
        /\ o \in Queued
        /\ handler_calls[o] = 0
        /\ Completes(o) = 0

\* C19: the runner delivers the completions of matched responses in the
\* order in which their frames were presented to gb_connection_recv: the
\* recv_work it runs is always the one that was queued first.
C19_CompletionsInArrivalOrder ==
    [][\A o \in Ops : RecvWorkResponse(o) => o = Head(recv_workqueue)]_vars

\* the response path has queued the outgoing operation to the runner (its
\* work is still queued, or has run)
ResponseQueued(o) ==
    /\ pc[o] \notin {"none", "incoming"}
    /\ \/ o \in Queued
       \/ \E i \in 1..Len(complete_log[o]) : complete_log[o][i].caller = "recv_work"

\* C20: once the response path has queued an operation to the runner, the
\* operation's timeout is neither armed nor running, whatever the
\* interleaving of the submitter and the dispatcher.
C20_QueuedMeansDisarmed ==
    \A o \in Ops : ResponseQueued(o) => timeout_work[o] = "idle"

\* C21: an operation that has been destroyed has no timeout armed or
\* running and no recv_work queued, and no handler has touched freed memory.
C21_NoUseAfterDestroy ==
    /\ fault # "use_after_free"
    /\ \A o \in Ops :
          alloc[o] = "destroyed" =>
              /\ timeout_work[o] = "idle"
              /\ o \notin Queued

\* a response frame that matches a pending operation and fits its response
\* buffer
ResponseFits(frame) ==
    /\ RecvRoute(frame) = "response"
    /\ gb_pending_operation_find(frame.operation_id) # 0
    /\ frame.size <= ops[gb_pending_operation_find(frame.operation_id)].response.buffer_size

\* C22: a matching response within the buffer's capacity leaves the
\* operation's result equal to the result byte of the incoming header, the
\* response buffer holding the incoming header, and the operation queued on
\* the runner.
C22_ResponseCopied ==
    [][\A frame \in Frames :
          ResponseFits(frame) =>
              LET o == gb_pending_operation_find(frame.operation_id) IN
              \/ /\ ops'[o].result = frame.result
                 /\ ops'[o].response.header =
                       [size |-> frame.size, operation_id |-> frame.operation_id,
                        type |-> frame.type, result |-> frame.result]
                 /\ o \in SeqToSet(recv_workqueue')
              \/ ~gb_connection_recv(frame, "ok")]_vars

\* the submitting thread is still inside gb_operation_request_send
Submitting(o) == pc[o] \in {"inserted", "sent", "waiting"}

\* C23: an operation in the pending list has a non-null request cookie or
\* its submit call is still executing.
C23_PendingHasCookie ==
    \A o \in Pending : ops[o].request.cookie \/ Submitting(o)

\* C24: the request cookie of a live operation is non-null only while the
\* host device still holds the buffer, and gb_message_cancel never hands
\* buffer_cancel a cookie whose send is already over.
C24_CookieOnlyInFlight ==
    /\ ~hd_stale_cancel
    /\ \A o \in Ops :
          (alloc[o] = "live" /\ ops[o].request.cookie) => o \in hd_inflight

\* C25: gb_operation_cancel only sets the cancel flag and asks the transport
\* to recall the buffer: it invokes no completion, queues nothing, leaves the
\* result, the timeout and both lists as they were.
C25_CancelFrame ==
    [][\/ /\ UNCHANGED <<complete_log, handler_calls, timeout_work, recv_workqueue,
                         operations, pending, alloc, pc, ret>>
          /\ \A p \in Ops : ops'[p] = [ops[p] EXCEPT !.canceled = ops'[p].canceled]
       \/ \A o \in Ops : ~gb_operation_cancel(o)]_vars

\* an operation cancelled while pending with its timeout armed is still
\* pending, armed and not completed
C25_Witness ==
    \E o \in Pending :
        /\ ops[o].canceled
        /\ hd_cancel_calls[o] > 0
        /\ timeout_work[o] = "armed"
        /\ ~ops[o].completion
        /\ Completes(o) = 0

C27_SubmitOrder ==
    [][\A o \in Ops :
          /\ (o \in hd_inflight' /\ o \notin hd_inflight) =>
                 /\ o \in Pending
                 /\ ops[o].id = ops[o].request.header.operation_id
          /\ Len(complete_log'[o]) > Len(complete_log[o]) =>
                 o \notin SeqToSet(pending')]_vars

\* an operation that is allocated and whose last reference is not dropped
Live(o) == alloc[o] = "live" /\ ops[o].kref > 0

\* C28: every live operation is in exactly one of connection->pending and
\* connection->operations, an operation that was never submitted and every
\* incoming operation being in connection->operations; an operation that is
\* not live is in neither list.
C28_ExactlyOneList ==
    \A o \in Ops :
        IF Live(o)
        THEN /\ (o \in Pending) # (o \in SeqToSet(operations))
             /\ pc[o] \in {"idle", "incoming"} => o \in SeqToSet(operations)
        ELSE o \notin Pending /\ o \notin SeqToSet(operations)

\* a submitted operation whose response took it off the pending list is on
\* connection->operations again
C28_Witness ==
    \E o \in Ops :
        /\ Live(o)
        /\ pc[o] \in {"sent", "waiting", "returned"}
        /\ ops[o].id # 0
        /\ o \in Queued
        /\ o \in SeqToSet(operations)

QueuedTimes(queue, o) == Cardinality({i \in 1..Len(queue) : queue[i] = o})

\* C30: an incoming request for which an operation is created leaves a new
\* operation whose id is the header's operation_id, with no response buffer,
\* a request buffer of the size of the frame holding the frame's header and
\* payload, on connection->operations and not on connection->pending, with
\* no timeout armed, and queued on the runner exactly once.
C30_IncomingOperation ==
    [][\A frame \in RequestFrames, outcome \in CreateOutcomes :
          \/ FreeOp = 0
          \/ alloc'[FreeOp] # "live"
          \/ ~gb_connection_recv(frame, outcome)
          \/ LET operation == ops'[FreeOp] IN
             /\ operation.id = frame.operation_id
             /\ ~operation.response.buffer
             /\ operation.request.buffer
             /\ operation.request.buffer_size = frame.size
             /\ operation.request.header =
                   [size |-> frame.size, operation_id |-> frame.operation_id,
                    type |-> frame.type, result |-> frame.result]
             /\ operation.request.payload0 = PayloadMark
             /\ FreeOp \in SeqToSet(operations')
             /\ FreeOp \notin SeqToSet(pending')
             /\ timeout_work'[FreeOp] = "idle"
             /\ QueuedTimes(recv_workqueue', FreeOp) = 1]_vars

(* --------------------------- message sizes ---------------------------- *)
\* payload sizes around the limits: none, the largest whose frame is within
\* GB_OPERATION_MESSAGE_SIZE_MAX, one more, the maximum itself, one more
AllocSizes ==
    {0, GB_OPERATION_MESSAGE_SIZE_MAX - HDR_SIZE, GB_OPERATION_MESSAGE_SIZE_MAX - HDR_SIZE + 1,
     GB_OPERATION_MESSAGE_SIZE_MAX, GB_OPERATION_MESSAGE_SIZE_MAX + 1}

InitAlloc ==
    /\ InitCommon
    /\ cache_objects = NumOps
    /\ protocol_handler = TRUE
    /\ hd_fill \in FillBytes
    /\ op_cycle = 0
    /\ InitClean

\* submitters that create operations of those sizes and release them
NextAlloc ==
    \/ \E o \in Ops, request_size \in AllocSizes, response_size \in AllocSizes,
          outcome \in CreateOutcomes :
          gb_operation_create(o, request_size, response_size, outcome)
    \/ \E o \in Ops : gb_operation_put(o, "proceeds")

SpecAlloc == InitAlloc /\ [][NextAlloc]_vars

\* C31: a create whose request or response payload exceeds
\* GB_OPERATION_MESSAGE_SIZE_MAX less the header is rejected, leaving no
\* operation and no buffer behind, and no message of a live operation has a
\* buffer larger than GB_OPERATION_MESSAGE_SIZE_MAX.
C31_FrameWithinMax ==
    /\ [](\A o \in Ops :
            alloc[o] = "live" =>
                /\ ops[o].request.buffer_size <= GB_OPERATION_MESSAGE_SIZE_MAX
                /\ ops[o].response.buffer_size <= GB_OPERATION_MESSAGE_SIZE_MAX)
    /\ [][\A o \in Ops, request_size \in AllocSizes, response_size \in AllocSizes :
            \/ /\ request_size <= GB_OPERATION_MESSAGE_SIZE_MAX - HDR_SIZE
               /\ response_size <= GB_OPERATION_MESSAGE_SIZE_MAX - HDR_SIZE
            \/ ~gb_operation_create(o, request_size, response_size, "ok")
            \/ /\ alloc' = alloc
               /\ operations' = operations
               /\ hd_buffers'[o].request # "allocated"
               /\ hd_buffers'[o].response # "allocated"]_vars

\* C32: every call of gb_operation_complete delivers through one channel:
\* with a callback it invokes the callback and leaves the completion as it
\* was, without one it signals the completion; a signalled completion of a
\* live operation stays signalled, and a waiter that finds it signalled
\* returns 0.
C32_OneChannel ==
    [][\A o \in Ops :
          /\ Len(complete_log'[o]) > Len(complete_log[o]) =>
                 /\ Len(complete_log'[o]) = Len(complete_log[o]) + 1
                 /\ IF ops[o].callback
                    THEN /\ complete_log'[o][Len(complete_log'[o])].via = "callback"
                         /\ ops'[o].completion = ops[o].completion
                    ELSE /\ complete_log'[o][Len(complete_log'[o])].via = "completion"
                         /\ ops'[o].completion
          /\ (ops[o].completion /\ alloc[o] = "live" /\ alloc'[o] = "live") =>
                 ops'[o].completion
          /\ (ops[o].completion /\ pc[o] = "waiting" /\ pc'[o] # "waiting") =>
                 (pc'[o] = "returned" /\ ret'[o] = 0)]_vars

\* an operation submitted with a callback was completed through it and its
\* completion was never signalled
C32_Witness ==
    \E o \in Ops :
        /\ alloc[o] = "live"
        /\ ops[o].callback
        /\ Completes(o) = 1
        /\ complete_log[o][1].via = "callback"
        /\ ~ops[o].completion

\* C33: a gb_operation_create that succeeds leaves an operation with id 0,
\* request and response buffers allocated, one reference, no callback, its
\* timeout not armed, on connection->operations and not on
\* connection->pending; one that fails leaves both lists as they were.
C33_CreateOutgoing ==
    [][\A o \in Ops, request_size \in RequestSizes, response_size \in ResponseSizes,
         outcome \in CreateOutcomes :
          \/ o # FreeOp
          \/ ~gb_operation_create(o, request_size, response_size, outcome)
          \/ IF CreateStatus(TRUE, request_size, response_size, outcome) = "ok"
             THEN /\ alloc'[o] = "live"
                  /\ ops'[o].id = 0
                  /\ ops'[o].request.buffer /\ hd_buffers'[o].request = "allocated"
                  /\ ops'[o].response.buffer /\ hd_buffers'[o].response = "allocated"
                  /\ ops'[o].request.buffer_size = request_size + HDR_SIZE
                  /\ ops'[o].response.buffer_size = response_size + HDR_SIZE
                  /\ ops'[o].kref = 1
                  /\ ~ops'[o].callback
                  /\ timeout_work'[o] = "idle"
                  /\ o \in SeqToSet(operations')
                  /\ o \notin SeqToSet(pending')
             ELSE /\ operations' = operations
                  /\ pending' = pending
                  /\ alloc' = alloc]_vars

\* a created operation that nobody has submitted yet
C33_Witness ==
    \E o \in Ops :
        /\ pc[o] = "idle"
        /\ alloc[o] = "live"
        /\ ops[o].id = 0
        /\ ops[o].kref = 1
        /\ operations = <<o>>
        /\ pending = <<>>

(* ------------------------- power management --------------------------- *)
\* C34: pm.active_count is never negative; kbase_hwaccess_pm_gpu_active is
\* called on the 0 to 1 transitions and kbase_hwaccess_pm_gpu_idle on the 1
\* to 0 transitions and at no other time; and whenever kbdev->pm.lock is
\* free the GPU is marked active exactly when active_count > 0.
C34_ActiveCountHooks ==
    /\ active_count >= 0
    /\ ~hook_misuse
    /\ pm_lock = NoThread => (gpu_active <=> active_count > 0)
    /\ \A t \in PmThreads :
          /\ pm_pc[t] = "active_counted" => (gpu_active <=> active_count > 1)
          /\ pm_pc[t] = "idle_counted" => gpu_active

\* two references are held, the GPU is marked active and the lock is free
C34_Witness ==
    /\ pm_lock = NoThread
    /\ active_count = 2
    /\ gpu_active
    /\ \E t \in PmUsers : pm_refs[t] = 1 /\ pm_pc[t] = "out"

\* C35: once the driver is suspending and active_count is zero, the count
\* stays zero for as long as the driver is suspending; a call of
\* kbase_pm_context_active_handle_suspend made while suspending returns 1
\* and leaves the count alone for DONT_INCREASE, and for DONT_REACTIVATE
\* when the count is 0; and kbase_hwaccess_pm_suspend is called with
\* active_count = 0 only.
C35_ZeroStaysZero ==
    /\ [](suspend_pc = "suspended" => hw_suspend_seen = 0)
    /\ [][/\ (suspending /\ active_count = 0 /\ suspending') => active_count' = 0
          /\ \A t \in PmThreads :
                (/\ pm_pc[t] = "active_locked"
                 /\ pm_pc'[t] # "active_locked"
                 /\ suspending
                 /\ \/ suspend_handler[t] = "DONT_INCREASE"
                    \/ suspend_handler[t] = "DONT_REACTIVATE" /\ active_count = 0)
                => /\ pm_ret'[t] = 1
                   /\ pm_pc'[t] = "out"
                   /\ active_count' = active_count
                   /\ pm_refs' = pm_refs]_vars

\* the driver is suspended with no reference held, and a caller that asked
\* with DONT_REACTIVATE while it was suspending was turned away
C35_Witness ==
    /\ suspend_pc = "suspended"
    /\ suspending
    /\ active_count = 0
    /\ \E t \in PmUsers :
          /\ suspend_handler[t] = "DONT_REACTIVATE"
          /\ pm_ret[t] = 1
          /\ pm_pc[t] = "out"

=============================================================================
